---- MODULE Spec2Model ----
(***************************************************************************)
(* Model of white-luminance-greyscale-color-inverter.py:                   *)
(*   - process_image_with_aura (invert, greyscale, threshold mask, glow),  *)
(*     checked as a function of its inputs under Spec;                     *)
(*   - batch_process_input_folder (the per-file loop), under BatchSpec;    *)
(*   - ImageCard (sliders, debounce timer, _process), under CardSpec;      *)
(*   - VisualIdentityApp.add_files and _export, under ExportSpec.          *)
(* Pixel coordinates are <<x, y>>, 1-based; the numpy arrays of the code   *)
(* have shape (h, w), so axis 0 is y and axis 1 is x.                      *)
(***************************************************************************)
EXTENDS Integers, Sequences, FiniteSets, TLC

VARIABLES
    \* the filter: its three arguments, the float behaviour of the build,
    \* the result of the call and of a call on that result
    src, aura_size, white_threshold, fdown, fseen, blurUlp, result, second, pc,
    \* the batch: who calls it, the folders, the loop, what it wrote,
    \* printed and returned
    caller, input_exists, output_state, entries, files, idx, saved, printed,
    retval, raised, dialog,
    \* the window: its cards, and for one card the file, the sliders, the
    \* debounce timer, the label, the image shown; quiet, runs and
    \* fired_quiet are history kept for the properties
    cards, card_file, aura_slider, thr_slider, timer, status_lbl, proc_img,
    quiet, runs, fired_quiet

filterVars == <<src, fseen, result, second>>
batchVars == <<caller, input_exists, output_state, entries, files, idx, saved,
               printed, retval, raised, dialog>>
guiVars == <<cards, card_file, aura_slider, thr_slider, timer, status_lbl,
             proc_img, quiet, runs, fired_quiet>>
vars == <<src, aura_size, white_threshold, fdown, fseen, blurUlp, result,
          second, pc, caller, input_exists, output_state, entries, files, idx,
          saved, printed, retval, raised, dialog, cards, card_file,
          aura_slider, thr_slider, timer, status_lbl, proc_img, quiet, runs,
          fired_quiet>>

(***************************************************************************)
(* Bounds of the model                                                     *)
(***************************************************************************)
\* small images have at most MaxPixels pixels (w * h <= MaxPixels)
MaxPixels == 4
\* the input folder holds at most MaxFiles entries
MaxFiles == 3
MaxCards == 3
MaxPaths == 2

(***************************************************************************)
(* Program constants                                                       *)
(***************************************************************************)
max_size == 2000
\* the reference resolution 220 * 220 of the aura scale
RefArea == 48400
\* fixed-point unit of the Gaussian weights below
KernelUnit == 10000

Max2(a, b) == IF a >= b THEN a ELSE b
Min2(a, b) == IF a <= b THEN a ELSE b
Abs(a) == IF a >= 0 THEN a ELSE 0 - a

Pix(w, h) == (1..w) \X (1..h)

(***************************************************************************)
(* Inputs                                                                  *)
(***************************************************************************)
\* RGB colours of the small images: black, white and a colour whose
\* inverted luminance is 200.342 (-> 200); the L images add mid grey
\* (inverted luminance 128.0), the RGBA images red (178.755 -> 178)
Palette == {<<0, 0, 0>>, <<255, 255, 255>>, <<55, 55, 52>>}

Modes == {"RGB", "L", "RGBA"}

ModePalette(m) ==
    CASE m = "RGB"  -> Palette
      [] m = "L"    -> {0, 127}
      [] m = "RGBA" -> {<<0, 0, 0, 0>>, <<255, 0, 0, 128>>}

SmallSizes == {s \in (1..MaxPixels) \X (1..MaxPixels) : s[1] * s[2] <= MaxPixels}

\* uniform images with sizes around the max_size guard: <<w, h, colour>>
LargeCases ==
    {<<2000, 1, <<0, 0, 0>>>>, <<2001, 1, <<0, 0, 0>>>>,
     <<1, 2001, <<255, 255, 255>>>>, <<3000, 2, <<55, 55, 52>>>>}

SmallImages ==
    UNION {{[kind |-> "ok", mode |-> m, w |-> s[1], h |-> s[2], px |-> f] :
               f \in [Pix(s[1], s[2]) -> ModePalette(m)]} :
           m \in Modes, s \in SmallSizes}

LargeImages ==
    {[kind |-> "ok", mode |-> "RGB", w |-> c[1], h |-> c[2],
      px |-> [p \in Pix(c[1], c[2]) |-> c[3]]] : c \in LargeCases}

\* sources Image.open does not turn into an image: a path that does not
\* exist, a file that is no image, a file whose header gives a zero size
BadSources ==
    {[kind |-> "missing", mode |-> "RGB", w |-> 0, h |-> 0, px |-> <<>>],
     [kind |-> "corrupt", mode |-> "RGB", w |-> 0, h |-> 0, px |-> <<>>],
     [kind |-> "ok", mode |-> "RGB", w |-> 0, h |-> 3, px |-> <<>>],
     [kind |-> "ok", mode |-> "RGB", w |-> 3, h |-> 0, px |-> <<>>],
     [kind |-> "ok", mode |-> "L", w |-> 0, h |-> 0, px |-> <<>>]}

Sources == SmallImages \cup LargeImages \cup BadSources

AuraSizes == {-1, 0, 12}
Thresholds == {-1, 200, 254, 256}

(***************************************************************************)
(* Image.open, thumbnail, convert                                          *)
(***************************************************************************)
NoImage == [mode |-> "RGB", w |-> 0, h |-> 0, px |-> <<>>]

\* Image.open without the decoders' check of the size
Image_openAnySize(s) ==
    IF s.kind = "missing"
      THEN [exc |-> "FileNotFoundError", img |-> NoImage]
    ELSE IF s.kind = "corrupt"
      THEN [exc |-> "UnidentifiedImageError", img |-> NoImage]
    ELSE [exc |-> "none", img |-> [mode |-> s.mode, w |-> s.w, h |-> s.h, px |-> s.px]]

\* Image.open(image_path): raises for a missing path and for a source no
\* decoder identifies; every decoder rejects a header with a zero dimension
Image_open(s) ==
    IF s.kind = "missing"
      THEN [exc |-> "FileNotFoundError", img |-> NoImage]
    ELSE IF s.kind = "corrupt" \/ s.w <= 0 \/ s.h <= 0
      THEN [exc |-> "UnidentifiedImageError", img |-> NoImage]
    ELSE [exc |-> "none", img |-> [mode |-> s.mode, w |-> s.w, h |-> s.h, px |-> s.px]]

\* round_aspect without the lower limit of 1
round_aspectNoMin(fl, ce, errF, errC) ==
    IF errF <= errC THEN fl ELSE ce

\* round_aspect of Image.thumbnail: of floor and ceil of the scaled side,
\* the one whose aspect ratio is nearest the image's (floor on a tie), at
\* least 1.  errF, errC are the two distances, scaled to integers.
round_aspect(fl, ce, errF, errC) ==
    Max2(IF errF <= errC THEN fl ELSE ce, 1)

\* math.ceil of num / den, given its floor
CeilOf(num, den, fl) == IF fl * den = num THEN fl ELSE fl + 1

\* the new width of a portrait image: num = max_size * w, key |w/h - n/max_size|
ThumbWidth(num, h, fl, ce) ==
    round_aspect(fl, ce, Abs(num - fl * h), Abs(num - ce * h))

\* the new height of a landscape image: num = max_size * h, key
\* 0 if n = 0 else |w/h - max_size/n|
ThumbHeight(num, w, fl, ce) ==
    round_aspect(fl, ce,
                 IF fl = 0 THEN 0 ELSE Abs(w * fl - num) * ce,
                 IF ce = 0 THEN 0 ELSE Abs(w * ce - num) * fl)

\* the size Image.thumbnail((max_size, max_size)) gives a w x h image
ThumbnailSize(w, h) ==
    IF max_size >= w /\ max_size >= h THEN <<w, h>>
    ELSE IF h >= w
      THEN <<ThumbWidth(max_size * w, h, (max_size * w) \div h,
                        CeilOf(max_size * w, h, (max_size * w) \div h)), max_size>>
      ELSE <<max_size, ThumbHeight(max_size * h, w, (max_size * h) \div w,
                                   CeilOf(max_size * h, w, (max_size * h) \div w))>>

\* resize to size s: the pixel of the resized image is taken at the
\* corresponding place of the source, which is what the Lanczos filter
\* returns on the uniform images of LargeImages
Resized(img, s) ==
    IF s = <<img.w, img.h>> THEN img
    ELSE [mode |-> img.mode, w |-> s[1], h |-> s[2],
          px |-> [p \in Pix(s[1], s[2]) |->
                    img.px[<<((p[1] - 1) * img.w) \div s[1] + 1,
                             ((p[2] - 1) * img.h) \div s[2] + 1>>]]]

\* img.thumbnail((max_size, max_size), Image.Resampling.LANCZOS)
thumbnail(img) == Resized(img, ThumbnailSize(img.w, img.h))

\* img.convert("RGB") of one pixel: L repeats the grey value, RGBA drops alpha
ConvertPixel(mode, v) ==
    CASE mode = "RGB"  -> v
      [] mode = "L"    -> <<v, v, v>>
      [] mode = "RGBA" -> <<v[1], v[2], v[3]>>

convert(img) ==
    [mode |-> "RGB", w |-> img.w, h |-> img.h,
     px |-> [p \in Pix(img.w, img.h) |-> ConvertPixel(img.mode, img.px[p])]]

(***************************************************************************)
(* Invert and greyscale                                                    *)
(***************************************************************************)
\* no inversion
InvertNone(c) == c

\* inverted = 255 - arr
Invert(c) == <<255 - c[1], 255 - c[2], 255 - c[3]>>

\* 1000 times the exact value of the dot product with [0.299, 0.587, 0.114]
Lum1000(c) == 299 * c[1] + 587 * c[2] + 114 * c[3]

\* the colours whose exact luminance is a positive integer: the float64 dot
\* product may land on it or just below it, depending on the build's
\* summation; every other value is at least 0.001 away from an integer
FloatSensitive(c) == Lum1000(c) % 1000 = 0 /\ Lum1000(c) > 0

\* np.dot(inverted, [0.299, 0.587, 0.114]).astype("uint8") of one inverted
\* pixel: truncation; down is the set of colours this build rounds below
Gray(c, down) ==
    IF c \in down THEN Lum1000(c) \div 1000 - 1 ELSE Lum1000(c) \div 1000

(***************************************************************************)
(* Glow                                                                    *)
(***************************************************************************)
\* gaussian_filter weights for sigma = 0.5 (radius int(4 * 0.5 + 0.5) = 2),
\* exp(-2 x^2) normalised, in units of 1 / KernelUnit
GaussKernel == <<3, 1064, 7866, 1064, 3>>

\* scipy's default boundary mode "reflect" (d c b a | a b c d | d c b a)
Reflect(i, n) ==
    LET m == (i - 1) % (2 * n)
    IN IF m < n THEN m + 1 ELSE 2 * n - m

\* one pass of the separable filter along axis 0 (y) and along axis 1 (x)
BlurY(f, h, p) ==
    GaussKernel[1] * f[<<p[1], Reflect(p[2] - 2, h)>>]
  + GaussKernel[2] * f[<<p[1], Reflect(p[2] - 1, h)>>]
  + GaussKernel[3] * f[p]
  + GaussKernel[4] * f[<<p[1], Reflect(p[2] + 1, h)>>]
  + GaussKernel[5] * f[<<p[1], Reflect(p[2] + 2, h)>>]

BlurX(f, w, p) ==
    GaussKernel[1] * f[<<Reflect(p[1] - 2, w), p[2]>>]
  + GaussKernel[2] * f[<<Reflect(p[1] - 1, w), p[2]>>]
  + GaussKernel[3] * f[p]
  + GaussKernel[4] * f[<<Reflect(p[1] + 1, w), p[2]>>]
  + GaussKernel[5] * f[<<Reflect(p[1] + 2, w), p[2]>>]

\* the second pass, over the values of the first
SecondPass(pass0, w, h) == [p \in Pix(w, h) |-> BlurX(pass0, w, p)]

\* gaussian_filter(mask, sigma = 0.5), in units of 1 / KernelUnit^2
gaussian_filter(mask, w, h) ==
    SecondPass([p \in Pix(w, h) |-> BlurY(mask, h, p)], w, h)

\* (glow * 255).astype("uint8") of one blurred value b: truncation.  Where
\* the whole neighbourhood is bright the float sum is 1.0 or just below
\* it, so the byte is 255 or 254 (ulp = 0 or 1), the same at every pixel.
GlowByte(b, ulp) ==
    IF b = KernelUnit * KernelUnit THEN 255 - ulp
    ELSE (255 * (b \div 100)) \div (KernelUnit * 100)

\* a stack whose third channel is not the grey value
Stack3Blue(g) == <<g, g, 255 - g>>

\* np.stack([g, g, g], axis = 2) of one value
Stack3(g) == <<g, g, g>>

(***************************************************************************)
(* process_image_with_aura                                                 *)
(***************************************************************************)
NoResult(e) ==
    [status |-> "raised", exc |-> e, w |-> 0, h |-> 0, out |-> <<>>,
     gray |-> <<>>, count |-> 0, glowed |-> FALSE]

\* if img.mode != "RGB": img = img.convert("RGB")
EnsureRGB(img) == IF img.mode # "RGB" THEN convert(img) ELSE img

\* if max(img.size) > max_size: img.thumbnail(...)
SizeGuard(img) == IF Max2(img.w, img.h) > max_size THEN thumbnail(img) ELSE img

\* the image the arithmetic runs on: size-guarded, then converted
Prepared(img) == EnsureRGB(SizeGuard(img))

\* the glow condition with "not zero" in place of "positive"
GlowAppliesNonZero(aura, white_count) == aura # 0 /\ white_count > 0

\* the glow condition of the code
GlowApplies(aura, white_count) == aura > 0 /\ white_count > 0

\* the glow written over the luminance instead of the maximum of the two
EnhancedGlowOnly(g, glowByte) == glowByte

\* np.maximum(gray_arr, glow.astype("uint8")) of one pixel
Enhanced(g, glowByte) == Max2(g, glowByte)

\* the threshold test with >= in place of >, and with < in place of >
IsBrightOrEqual(g, thr) == g >= thr
IsBrightReversed(g, thr) == g < thr
\* the threshold cast to the array's uint8 before the comparison
IsBrightWrapped(g, thr) == g > thr % 256

\* white_pixels = np.where(gray_arr > white_threshold)
IsBright(g, thr) == g > thr

\* mask = (gray_arr > white_threshold).astype(float)
Mask(gray_arr, thr) == [p \in DOMAIN gray_arr |-> IF IsBright(gray_arr[p], thr) THEN 1 ELSE 0]

\* glow = gaussian_filter(mask, sigma) * 255; enhanced = np.maximum(...)
EnhancedArr(gray_arr, glow, ulp) ==
    [p \in DOMAIN gray_arr |-> Stack3(Enhanced(gray_arr[p], GlowByte(glow[p], ulp)))]

\* the two branches after the count
Compose(w, h, gray_arr, white_count, aura, thr, ulp) ==
    IF GlowApplies(aura, white_count)
      THEN [status |-> "ok", exc |-> "none", w |-> w, h |-> h,
            out |-> EnhancedArr(gray_arr, gaussian_filter(Mask(gray_arr, thr), w, h), ulp),
            gray |-> gray_arr, count |-> white_count, glowed |-> TRUE]
      ELSE [status |-> "ok", exc |-> "none", w |-> w, h |-> h,
            out |-> [p \in DOMAIN gray_arr |-> Stack3(gray_arr[p])],
            gray |-> gray_arr, count |-> white_count, glowed |-> FALSE]

\* white_count = len(np.where(gray_arr > white_threshold)[0])
Counted(w, h, gray_arr, aura, thr, ulp) ==
    Compose(w, h, gray_arr,
            Cardinality({p \in DOMAIN gray_arr : IsBright(gray_arr[p], thr)}),
            aura, thr, ulp)

\* inverted = 255 - arr; gray_arr = np.dot(inverted, ...).astype("uint8")
Filtered(img, aura, thr, down, ulp) ==
    Counted(img.w, img.h,
            [p \in Pix(img.w, img.h) |-> Gray(Invert(img.px[p]), down)],
            aura, thr, ulp)

Opened(opened, aura, thr, down, ulp) ==
    IF opened.exc # "none" THEN NoResult(opened.exc)
    ELSE Filtered(Prepared(opened.img), aura, thr, down, ulp)

process_image_with_aura(s, aura, thr, down, ulp) ==
    Opened(Image_open(s), aura, thr, down, ulp)

(***************************************************************************)
(* The filter as a state machine: one call, then a call on its own output  *)
(***************************************************************************)
NotRun ==
    [status |-> "none", exc |-> "none", w |-> 0, h |-> 0, out |-> <<>>,
     gray |-> <<>>, count |-> 0, glowed |-> FALSE]

\* the RGB colours of an image
ColoursOf(img) == {img.px[p] : p \in Pix(img.w, img.h)}

PreparedColours(opened) ==
    IF opened.exc # "none" THEN {} ELSE ColoursOf(Prepared(opened.img))

\* the inverted colours of a source that the greyscale step will see
InvertedColours(s) == {Invert(c) : c \in PreparedColours(Image_open(s))}

SizeOf(img) == <<img.w, img.h>>

\* the size the arithmetic runs on
PreparedSize(s) ==
    IF Image_open(s).exc # "none" THEN <<0, 0>>
    ELSE SizeOf(SizeGuard(Image_open(s).img))

\* the inputs for which sigma is the 0.5 the kernel above is computed for
AreaOf(size) == size[1] * size[2]

\* sigma = max(0.5, aura_size * scale * 0.2), scale = sqrt(w * h / RefArea),
\* is 0.5 exactly when aura_size * scale * 0.2 <= 0.5
SigmaIsMin(aura, area) == 4 * aura * aura * area <= 25 * RefArea

InModelledRange(s, aura) ==
    aura <= 0 \/ SigmaIsMin(aura, AreaOf(PreparedSize(s)))

\* the batch variables while only the filter runs
BatchIdle ==
    /\ caller = "none"
    /\ input_exists = TRUE
    /\ output_state = "exists"
    /\ entries = <<>>
    /\ files = <<>>
    /\ idx = 0
    /\ saved = <<>>
    /\ printed = <<>>
    /\ retval = -1
    /\ raised = "none"
    /\ dialog = "none"

\* the window variables while no window is open
GuiIdle ==
    /\ cards = <<>>
    /\ card_file = "none"
    /\ aura_slider = 0
    /\ thr_slider = 0
    /\ timer = -1
    /\ status_lbl = "none"
    /\ proc_img = "none"
    /\ quiet = 0
    /\ runs = 0
    /\ fired_quiet = 0

Init ==
    /\ src \in Sources
    /\ aura_size \in AuraSizes
    /\ white_threshold \in Thresholds
    /\ InModelledRange(src, aura_size)
    /\ fdown = {}
    /\ fseen = {}
    /\ blurUlp = 0
    /\ result = NotRun
    /\ second = NotRun
    /\ pc = "start"
    /\ BatchIdle
    /\ GuiIdle

\* the output image as a source (stored without loss)
AsSource(r) == [kind |-> "ok", mode |-> "RGB", w |-> r.w, h |-> r.h, px |-> r.out]

\* the colours of a source whose float luminance is not yet fixed
Undecided(s, seen) == {c \in InvertedColours(s) \ seen : FloatSensitive(c)}

\* the float behaviour is only chosen where it shows: ulp in a glow
UlpShows(u, r) == u = 1 => r.glowed

\* a call of process_image_with_aura(src, aura_size, white_threshold); the
\* build's float behaviour is fixed on first use and kept afterwards
Process ==
    /\ pc = "start"
    /\ \E d \in SUBSET Undecided(src, fseen) :
       \E u \in {0, 1} :
          /\ result' = process_image_with_aura(src, aura_size, white_threshold,
                                               fdown \cup d, u)
          /\ UlpShows(u, result')
          /\ fdown' = fdown \cup d
          /\ blurUlp' = u
    /\ fseen' = fseen \cup InvertedColours(src)
    /\ pc' = "processed"
    /\ UNCHANGED <<src, aura_size, white_threshold, second>>
    /\ UNCHANGED batchVars
    /\ UNCHANGED guiVars

\* a second call, with the same parameters, on the first call's output
Reapply ==
    /\ pc = "processed"
    /\ result.status = "ok"
    /\ \E d \in SUBSET Undecided(AsSource(result), fseen) :
       \E u \in (IF result.glowed THEN {blurUlp} ELSE {0, 1}) :
          /\ second' = process_image_with_aura(AsSource(result), aura_size,
                                               white_threshold, fdown \cup d, u)
          /\ UlpShows(u, second')
          /\ fdown' = fdown \cup d
          /\ blurUlp' = u
    /\ fseen' = fseen \cup InvertedColours(AsSource(result))
    /\ pc' = "reapplied"
    /\ UNCHANGED <<src, aura_size, white_threshold, result>>
    /\ UNCHANGED batchVars
    /\ UNCHANGED guiVars

Next == Process \/ Reapply

Spec == Init /\ [][Next]_vars

(***************************************************************************)
(* batch_process_input_folder                                              *)
(***************************************************************************)
OnePixel(c) ==
    [kind |-> "ok", mode |-> "RGB", w |-> 1, h |-> 1, px |-> [p \in Pix(1, 1) |-> c]]

CorruptSource == [kind |-> "corrupt", mode |-> "RGB", w |-> 0, h |-> 0, px |-> <<>>]

\* the entries an input folder may hold
FileUniverse ==
    {[name |-> "a.png", stem |-> "a", suffix |-> ".png", source |-> OnePixel(<<0, 0, 0>>)],
     [name |-> "a.jpg", stem |-> "a", suffix |-> ".jpg", source |-> OnePixel(<<255, 255, 255>>)],
     [name |-> "b.PNG", stem |-> "b", suffix |-> ".PNG", source |-> CorruptSource],
     [name |-> "c.txt", stem |-> "c", suffix |-> ".txt", source |-> CorruptSource],
     [name |-> "d.gif", stem |-> "d", suffix |-> ".gif", source |-> OnePixel(<<0, 0, 0>>)],
     [name |-> "e.JPEG", stem |-> "e", suffix |-> ".JPEG", source |-> OnePixel(<<255, 255, 255>>)]}

\* what iterdir() may yield: the entries in any order, none twice
Listings ==
    {q \in UNION {[1..n -> FileUniverse] : n \in 0..MaxFiles} :
        \A i, j \in DOMAIN q : i # j => q[i] # q[j]}

supported == {".png", ".jpg", ".jpeg", ".bmp", ".gif", ".webp"}

\* the suffix compared as it is spelt
lowerNone(sfx) == sfx

\* str.lower() on the suffixes of FileUniverse
lower(sfx) ==
    CASE sfx = ".PNG" -> ".png"
      [] sfx = ".JPEG" -> ".jpeg"
      [] OTHER -> sfx

IsSupported(f) == lower(f.suffix) \in supported

\* output_folder / f"{file.stem}_processed.jpg"
OutputPath(f) == <<f.stem, "_processed.jpg">>

\* one line of the printed report
Line(kind, name, count) == [kind |-> kind, name |-> name, count |-> count]

\* what the except clause of the loop catches: every Exception
Caught(exc) == exc # "none"

\* the value the function returns after the loop
ReturnValue(fs) == Len(fs)

BatchInit ==
    /\ caller \in {"cli", "gui"}
    \* the import creates ./input and ./output; only the command line
    \* names other folders
    /\ input_exists \in (IF caller = "gui" THEN {TRUE} ELSE BOOLEAN)
    /\ output_state \in (IF caller = "gui" THEN {"exists"}
                         ELSE {"exists", "absent", "noparent"})
    /\ entries \in (IF input_exists THEN Listings ELSE {<<>>})
    /\ aura_size \in (IF caller = "gui" THEN {15} ELSE {0, 15})
    /\ white_threshold = 200
    /\ fdown \in SUBSET {<<255, 255, 255>>}
    /\ blurUlp \in (IF aura_size > 0 THEN {0, 1} ELSE {0})
    /\ files = <<>>
    /\ idx = 0
    /\ saved = <<>>
    /\ printed = <<>>
    /\ retval = -1
    /\ raised = "none"
    /\ dialog = "none"
    /\ src = CorruptSource
    /\ fseen = {}
    /\ result = NotRun
    /\ second = NotRun
    /\ pc = "batch_start"
    /\ GuiIdle

\* the function up to the loop: mkdir of the output folder, the listing
\* of the input folder, the early return when nothing is supported
BatchStart ==
    /\ pc = "batch_start"
    /\ IF output_state = "noparent"
         THEN /\ raised' = "FileNotFoundError"
              /\ pc' = "batch_raised"
              /\ UNCHANGED <<output_state, files, idx, printed, retval>>
       ELSE IF ~input_exists
         THEN /\ output_state' = "exists"
              /\ raised' = "FileNotFoundError"
              /\ pc' = "batch_raised"
              /\ UNCHANGED <<files, idx, printed, retval>>
       ELSE LET fs == SelectSeq(entries, IsSupported)
            IN /\ output_state' = "exists"
               /\ files' = fs
               /\ IF fs = <<>>
                    THEN /\ printed' = <<Line("no_images", "", 0)>>
                         /\ retval' = 0
                         /\ pc' = "batch_done"
                         /\ idx' = idx
                    ELSE /\ printed' = <<Line("processing", "", Len(fs))>>
                         /\ idx' = 1
                         /\ pc' = "batch_loop"
                         /\ retval' = retval
               /\ raised' = raised
    /\ UNCHANGED <<caller, input_exists, entries, saved, dialog>>
    /\ UNCHANGED <<aura_size, white_threshold, fdown, blurUlp>>
    /\ UNCHANGED filterVars
    /\ UNCHANGED guiVars

\* the body of the try: the save happens only when the filter returned
FileStep(file, r, save_exc) ==
    IF ~Caught(r.exc) /\ ~Caught(save_exc)
      THEN /\ saved' = Append(saved, [path |-> OutputPath(file),
                                      from |-> file.name, image |-> r.out])
           /\ printed' = Append(printed, Line("ok", file.name, r.count))
      ELSE /\ saved' = saved
           /\ printed' = Append(printed, Line("error", file.name, 0))

\* the exceptions processed.save may raise, when it is reached
SaveOutcomes(r) == IF Caught(r.exc) THEN {"none"} ELSE {"none", "OSError"}

FileOutcome(file, r) == \E save_exc \in SaveOutcomes(r) : FileStep(file, r, save_exc)

\* one iteration of the loop: process, save, report
BatchFile ==
    /\ pc = "batch_loop"
    /\ idx <= Len(files)
    /\ FileOutcome(files[idx],
                   process_image_with_aura(files[idx].source, aura_size,
                                           white_threshold, fdown, blurUlp))
    /\ idx' = idx + 1
    /\ UNCHANGED <<caller, input_exists, output_state, entries, files, retval,
                   raised, dialog, pc>>
    /\ UNCHANGED <<aura_size, white_threshold, fdown, blurUlp>>
    /\ UNCHANGED filterVars
    /\ UNCHANGED guiVars

\* after the last file: the closing line and the return
BatchReturn ==
    /\ pc = "batch_loop"
    /\ idx > Len(files)
    /\ printed' = Append(printed, Line("complete", "", 0))
    /\ retval' = ReturnValue(files)
    /\ pc' = "batch_done"
    /\ UNCHANGED <<caller, input_exists, output_state, entries, files, idx, saved,
                   raised, dialog>>
    /\ UNCHANGED <<aura_size, white_threshold, fdown, blurUlp>>
    /\ UNCHANGED filterVars
    /\ UNCHANGED guiVars

\* VisualIdentityApp._batch_process after the call returned
ShowBatchDialog ==
    /\ pc = "batch_done"
    /\ caller = "gui"
    /\ dialog = "none"
    /\ dialog' = IF retval > 0 THEN "Processed" ELSE "Empty"
    /\ UNCHANGED <<caller, input_exists, output_state, entries, files, idx, saved,
                   printed, retval, raised, pc>>
    /\ UNCHANGED <<aura_size, white_threshold, fdown, blurUlp>>
    /\ UNCHANGED filterVars
    /\ UNCHANGED guiVars

BatchNext == BatchStart \/ BatchFile \/ BatchReturn \/ ShowBatchDialog

BatchSpec == BatchInit /\ [][BatchNext]_vars

\* the files of the run the loop reported as processed
Successes == {i \in DOMAIN printed : printed[i].kind = "ok"}
Failures == {i \in DOMAIN printed : printed[i].kind = "error"}

(***************************************************************************)
(* The luminance L of the source, computed apart from the call's result    *)
(***************************************************************************)
LuminanceOf(img, down) ==
    [p \in Pix(img.w, img.h) |-> Gray(Invert(img.px[p]), down)]

\* the plain inverted-greyscale luminance of src in this build
PlainL == LuminanceOf(Prepared(Image_open(src).img), fdown)

Returned == pc # "start" /\ result.status = "ok"

Grey3(v) == <<v, v, v>>

(***************************************************************************)
(* Claims about process_image_with_aura (Spec)                             *)
(***************************************************************************)
\* C1: the returned count is the number of pixels whose luminance L is
\* strictly greater than white_threshold (L = white_threshold is not
\* counted); the right-hand side does not depend on aura_size, so the
\* count is the same for every aura_size.
C1_CountIsStrictlyAbove ==
    Returned =>
        result.count = Cardinality({p \in DOMAIN PlainL : PlainL[p] > white_threshold})

C1_Witness ==
    /\ Returned
    /\ aura_size > 0
    /\ \E p \in DOMAIN PlainL : PlainL[p] = white_threshold
    /\ result.count > 0
    /\ result.count < result.w * result.h

\* C2: the glow step runs exactly when aura_size > 0 and the count > 0; in
\* every other case (aura_size zero or negative, or no bright pixel) the
\* output is the plain luminance L at every pixel.
C2_NoGlowIsPlain ==
    Returned =>
        /\ result.glowed <=> (aura_size > 0 /\ result.count > 0)
        /\ ~(aura_size > 0 /\ result.count > 0) =>
               /\ DOMAIN result.out = DOMAIN PlainL
               /\ \A p \in DOMAIN PlainL : result.out[p] = Grey3(PlainL[p])

C2_Witness ==
    /\ Returned
    /\ aura_size < 0
    /\ result.count > 0
    /\ \A p \in DOMAIN PlainL : result.out[p] = Grey3(PlainL[p])

\* C3: when the glow runs, every output value is at least the luminance L
\* of the same pixel and lies in 0..255: the glow never darkens a pixel.
C3_GlowNeverDarkens ==
    (Returned /\ aura_size > 0 /\ result.count > 0) =>
        \A p \in DOMAIN PlainL : \A k \in 1..3 :
            /\ result.out[p][k] >= PlainL[p]
            /\ result.out[p][k] \in 0..255

C3_Witness ==
    /\ Returned
    /\ aura_size > 0
    /\ result.count > 0
    /\ \E p \in DOMAIN PlainL : result.out[p][1] > PlainL[p]
    /\ \E p \in DOMAIN PlainL : result.out[p][1] = PlainL[p] /\ PlainL[p] > 0

\* an image all of whose pixels are black (0, 0, 0)
AllBlack(s) ==
    /\ Image_open(s).exc = "none"
    /\ \A p \in DOMAIN s.px : ConvertPixel(s.mode, s.px[p]) = <<0, 0, 0>>

\* C6 as stated: an all-black image with white_threshold 200 gives count
\* 0 and no glow for any aura_size, and an output of about 255 everywhere.
C6_AsStated ==
    (pc # "start" /\ AllBlack(src) /\ white_threshold = 200) =>
        /\ result.count = 0
        /\ ~result.glowed
        /\ \A p \in DOMAIN result.out : result.out[p][1] \in {254, 255}

\* C6, amended: an all-black image with white_threshold 200 has every
\* pixel bright (count = width * height), the glow runs exactly when
\* aura_size > 0, and the output is one value, 254 or 255, at every pixel.
C6_BlackIsAllBright ==
    (pc # "start" /\ AllBlack(src) /\ white_threshold = 200) =>
        /\ result.status = "ok"
        /\ result.count = result.w * result.h
        /\ result.glowed <=> aura_size > 0
        /\ \E v \in {254, 255} : \A p \in DOMAIN result.out : result.out[p] = Grey3(v)

C6_Witness ==
    /\ pc # "start"
    /\ AllBlack(src)
    /\ white_threshold = 200
    /\ result.glowed
    /\ result.count = 4

Unreadable(s) == s.kind \in {"missing", "corrupt"}
ZeroDimension(s) == s.kind = "ok" /\ (s.w = 0 \/ s.h = 0)

\* the two error kinds of the specification, as far as the exceptions of
\* the code can be read as one of them
ErrorKind(exc) ==
    IF exc \in {"FileNotFoundError", "UnidentifiedImageError"} THEN "DecodeError" ELSE exc

C8_AsStated ==
    (pc = "reapplied" /\ aura_size = 0) => second.out = result.out

\* C8, amended: with aura_size = 0, the filter applied to its own output
\* returns the inverse of that output: a pixel of value L becomes 255 - L
\* or 254 - L (never below 0), so it keeps its value only where L = 127.
C8_ReapplyInverts ==
    (pc = "reapplied" /\ aura_size = 0) =>
        /\ second.status = "ok"
        /\ DOMAIN second.out = DOMAIN result.out
        /\ \A p \in DOMAIN result.out :
              /\ second.out[p] \in {Grey3(255 - result.out[p][1]),
                                    Grey3(254 - result.out[p][1])}
              /\ second.out[p][1] >= 0
              /\ result.out[p][1] # 127 => second.out[p] # result.out[p]

C8_Witness ==
    /\ pc = "reapplied"
    /\ aura_size = 0
    /\ \E p \in DOMAIN result.out : second.out[p][1] = 255 - result.out[p][1]
    /\ \E p \in DOMAIN result.out : second.out[p][1] = 254 - result.out[p][1]

\* C9: an image whose longer side is at most 2000 keeps its size; a larger
\* one gets a longer side of 2000 and a shorter side within one pixel of
\* the same ratio, at least 1; in both branches the output has the size of
\* the luminance grid.
C9_OutputSize ==
    Returned =>
        /\ Max2(src.w, src.h) <= max_size => (result.w = src.w /\ result.h = src.h)
        /\ Max2(src.w, src.h) > max_size =>
              /\ Max2(result.w, result.h) = max_size
              /\ Min2(result.w, result.h) >= 1
              /\ src.w >= src.h => result.w = max_size
              /\ src.h >= src.w => result.h = max_size
              /\ Abs(Min2(result.w, result.h) * Max2(src.w, src.h)
                       - Min2(src.w, src.h) * max_size) < Max2(src.w, src.h)
        /\ DOMAIN result.out = Pix(result.w, result.h)
        /\ DOMAIN result.gray = Pix(result.w, result.h)

C9_Witness ==
    /\ Returned
    /\ src.w = 3000
    /\ src.h = 2
    /\ result.w = max_size
    /\ result.h = 1
    /\ result.glowed

\* C10: every pixel of every returned image has R = G = B, with and
\* without glow, for RGB sources and for sources converted to RGB.
C10_ChannelsEqual ==
    \A r \in {result, second} :
        r.status = "ok" =>
            \A p \in DOMAIN r.out :
                /\ Len(r.out[p]) = 3
                /\ r.out[p][1] = r.out[p][2]
                /\ r.out[p][2] = r.out[p][3]

C10_Witness ==
    /\ Returned
    /\ src.mode = "RGBA"
    /\ \E p \in DOMAIN src.px : src.px[p] = <<255, 0, 0, 128>>
    /\ result.glowed
    /\ second.status = "ok"

(***************************************************************************)
(* Claims about batch_process_input_folder (BatchSpec)                     *)
(***************************************************************************)
\* the lines of the report that are about one file
FileLines == Successes \cup Failures

\* C4 as stated: a failing file is caught and the loop goes on to every
\* remaining file, and the value returned is the number of files that
\* were processed successfully.
C4_AsStated ==
    pc = "batch_done" =>
        /\ Cardinality(FileLines) = Len(files)
        /\ retval = Cardinality(Successes)

\* C5 as stated: with a missing input folder the call ends without an
\* exception, nothing is processed and 0 is returned, as for a folder
\* without supported images.
C5_AsStated ==
    (pc \in {"batch_done", "batch_raised"} /\ ~input_exists) =>
        /\ pc = "batch_done"
        /\ raised = "none"
        /\ retval = 0
        /\ saved = <<>>

(***************************************************************************)
(* Thresholds outside 0..255 (Spec)                                        *)
(***************************************************************************)
\* C11: a white_threshold outside 0..255 is accepted without an error and
\* gives a degenerate mask: below 0 every pixel is bright (count = width *
\* height), above 255 none is (count = 0); for every threshold the count
\* lies between 0 and width * height.
C11_DegenerateMasks ==
    (pc # "start" /\ Image_open(src).exc = "none") =>
        /\ result.status = "ok"
        /\ white_threshold < 0 => result.count = result.w * result.h
        /\ white_threshold > 255 => result.count = 0
        /\ result.count \in 0..(result.w * result.h)

C11_Witness ==
    /\ pc = "reapplied"
    /\ white_threshold < 0
    /\ result.count = result.w * result.h
    /\ result.count > 1
    /\ \E p \in DOMAIN result.gray : result.gray[p] = 0
    /\ second.count = second.w * second.h

(***************************************************************************)
(* What the batch reads and writes (BatchSpec)                             *)
(***************************************************************************)
\* the six extensions of the claim, in lower and in upper case
ClaimedSuffixes ==
    {".png", ".jpg", ".jpeg", ".bmp", ".gif", ".webp",
     ".PNG", ".JPG", ".JPEG", ".BMP", ".GIF", ".WEBP"}

InSeq(q, x) == \E i \in DOMAIN q : q[i] = x

\* the files the loop has been through
Done == {i \in DOMAIN files : i < idx}

SavedFrom(f) == {k \in DOMAIN saved : saved[k].from = f.name}

\* C12: the batch takes exactly the entries whose extension is, without
\* regard to case, one of .png .jpg .jpeg .bmp .gif .webp; a file processed
\* successfully is written to <stem>_processed.jpg; nothing is written for
\* an entry filtered out or a file that failed; with no matching entry
\* nothing is processed and 0 is returned.
C12_ReadsAndWrites ==
    pc \in {"batch_loop", "batch_done"} =>
        /\ \A f \in FileUniverse :
              InSeq(files, f) <=> (InSeq(entries, f) /\ f.suffix \in ClaimedSuffixes)
        /\ \A i \in Done :
              /\ printed[i + 1].name = files[i].name
              /\ printed[i + 1].kind = "ok" =>
                    /\ Cardinality(SavedFrom(files[i])) = 1
                    /\ \A k \in SavedFrom(files[i]) :
                          saved[k].path = <<files[i].stem, "_processed.jpg">>
              /\ printed[i + 1].kind # "ok" => SavedFrom(files[i]) = {}
        /\ \A f \in FileUniverse : ~InSeq(files, f) => SavedFrom(f) = {}
        /\ (pc = "batch_done" /\ files = <<>>) => (retval = 0 /\ saved = <<>>)

C12_Witness ==
    /\ pc = "batch_done"
    /\ \E k \in DOMAIN saved :
          saved[k].from = "e.JPEG" /\ saved[k].path = <<"e", "_processed.jpg">>
    /\ \E i \in DOMAIN printed : printed[i].kind = "error" /\ printed[i].name = "b.PNG"
    /\ \E j \in DOMAIN entries : entries[j].name = "c.txt"
    /\ Len(files) = 2

\* C14 as stated: in a run in which every file succeeds, distinct input
\* files are written to distinct output paths, so no result is
\* overwritten by another file of the same run.
C14_AsStated ==
    (pc = "batch_done" /\ Failures = {}) =>
        /\ Len(saved) = Len(files)
        /\ \A k1, k2 \in DOMAIN saved :
              saved[k1].from # saved[k2].from => saved[k1].path # saved[k2].path

(***************************************************************************)
(* ImageCard: the sliders, the debounce timer and _process                 *)
(***************************************************************************)
\* the step of the clock, in milliseconds
TickMs == 100

\* debounce_timer.start(500)
DebounceMs == 500

\* aura_slider.setValue(15), thr_slider.setValue(200)
AuraStart == 15
ThrStart == 200

\* positions of the sliders, within setRange(0, 50) and setRange(100, 250)
AuraSliderValues == {0, 15, 50}
ThrSliderValues == {100, 200, 250}

\* an image of two pixels, one black and one white
TwoTone ==
    [kind |-> "ok", mode |-> "RGB", w |-> 2, h |-> 1,
     px |-> [p \in Pix(2, 1) |-> IF p[1] = 1 THEN <<0, 0, 0>> ELSE <<255, 255, 255>>]]

MissingSource == [kind |-> "missing", mode |-> "RGB", w |-> 0, h |-> 0, px |-> <<>>]

\* the files a card may be made for
CardFiles == {OnePixel(<<0, 0, 0>>), OnePixel(<<55, 55, 52>>), TwoTone, CorruptSource}

\* the text of status_lbl
Label(kind, count, exc) == [kind |-> kind, count |-> count, exc |-> exc]

\* proc_img: the pixmap shown, with the slider values it was computed for
NoPixmap == [shown |-> FALSE, out |-> <<>>, aura |-> -1, thr |-> -1]
Pixmap(r, aura, thr) == [shown |-> TRUE, out |-> r.out, aura |-> aura, thr |-> thr]

\* _process: the label after the try, given the filter's result
ProcessLabel(r) ==
    IF Caught(r.exc) THEN Label("error", 0, r.exc)
    ELSE Label("points", r.count, "none")

\* _process: the image after the try; the except clause leaves it alone
ProcessPixmap(r, old, aura, thr) ==
    IF Caught(r.exc) THEN old ELSE Pixmap(r, aura, thr)

\* a timer that a change leaves running when it already runs
StartIfIdle(t) == IF t >= 0 THEN t ELSE DebounceMs

\* QTimer.start(msec) of a single-shot timer: stops it if it runs, then
\* starts it again with the whole interval
Start(t) == DebounceMs

\* _process called with the sliders at aura and thr
Processed(r, aura, thr) ==
    /\ status_lbl' = ProcessLabel(r)
    /\ proc_img' = ProcessPixmap(r, proc_img, aura, thr)

\* __init__ after _build_ui: _load_and_process ends in _process, or in the
\* same error label when its own Image.open raises
CardBuilt(r) ==
    /\ status_lbl = ProcessLabel(r)
    /\ proc_img = ProcessPixmap(r, NoPixmap, AuraStart, ThrStart)

\* what the card's handlers never touch
cardFrame == <<src, aura_size, white_threshold, fdown, fseen, blurUlp, result,
               second, pc, cards>>

\* a card just constructed; no slider has moved yet
CardInit ==
    /\ card_file \in CardFiles
    /\ aura_slider = AuraStart
    /\ thr_slider = ThrStart
    /\ timer = -1
    /\ fdown \in SUBSET {<<255, 255, 255>>}
    /\ blurUlp \in {0, 1}
    /\ CardBuilt(process_image_with_aura(card_file, AuraStart, ThrStart, fdown,
                                         blurUlp))
    /\ quiet = DebounceMs
    /\ runs = 0
    /\ fired_quiet = 0
    /\ cards = <<>>
    /\ aura_size = 0
    /\ white_threshold = 0
    /\ src = CorruptSource
    /\ fseen = {}
    /\ result = NotRun
    /\ second = NotRun
    /\ pc = "card"
    /\ BatchIdle

\* _slider_changed, the slot of both valueChanged signals
SliderChanged ==
    /\ status_lbl' = Label("processing", 0, "none")
    /\ timer' = Start(timer)
    /\ quiet' = 0
    /\ runs' = 0
    /\ UNCHANGED <<card_file, proc_img, fired_quiet>>
    /\ UNCHANGED cardFrame
    /\ UNCHANGED batchVars

\* the user moves the aura slider to another position
MoveAura ==
    /\ \E v \in AuraSliderValues \ {aura_slider} : aura_slider' = v
    /\ thr_slider' = thr_slider
    /\ SliderChanged

\* the user moves the threshold slider to another position
MoveThr ==
    /\ \E v \in ThrSliderValues \ {thr_slider} : thr_slider' = v
    /\ aura_slider' = aura_slider
    /\ SliderChanged

\* TickMs pass without an event of the card
Tick ==
    /\ timer > 0 \/ quiet < DebounceMs
    /\ timer' = IF timer >= 0 THEN Max2(timer - TickMs, 0) ELSE timer
    /\ quiet' = Min2(quiet + TickMs, DebounceMs)
    /\ UNCHANGED <<card_file, aura_slider, thr_slider, status_lbl, proc_img,
                   runs, fired_quiet>>
    /\ UNCHANGED cardFrame
    /\ UNCHANGED batchVars

\* the timer's interval has passed: timeout calls _process, and the
\* single-shot timer stays stopped
Timeout ==
    /\ timer = 0
    /\ timer' = -1
    /\ Processed(process_image_with_aura(card_file, aura_slider, thr_slider,
                                         fdown, blurUlp),
                 aura_slider, thr_slider)
    /\ runs' = runs + 1
    /\ fired_quiet' = quiet
    /\ UNCHANGED <<card_file, aura_slider, thr_slider, quiet>>
    /\ UNCHANGED cardFrame
    /\ UNCHANGED batchVars

\* the card's file is removed from the disk while the card is open
FileLost ==
    /\ card_file.kind = "ok"
    /\ card_file' = MissingSource
    /\ UNCHANGED <<aura_slider, thr_slider, timer, status_lbl, proc_img, quiet,
                   runs, fired_quiet>>
    /\ UNCHANGED cardFrame
    /\ UNCHANGED batchVars

CardNext == MoveAura \/ MoveThr \/ Tick \/ Timeout \/ FileLost

CardSpec == CardInit /\ [][CardNext]_vars

\* C13 as stated: the timer's _process runs at most once per burst of
\* slider changes and only after DebounceMs without a change; once it has
\* run the label shows the count or an error, and the image shown is the
\* one computed for the sliders' present values.
C13_AsStated ==
    /\ runs <= 1
    /\ runs = 1 =>
          /\ fired_quiet >= DebounceMs
          /\ status_lbl.kind \in {"points", "error"}
          /\ proc_img.shown
          /\ proc_img.aura = aura_slider
          /\ proc_img.thr = thr_slider

\* C13, amended: every slider change restarts the one single-shot timer,
\* so while it runs the label reads "Processing..." and _process has not
\* run in this burst; _process runs at most once per burst, only after
\* DebounceMs without a change; once it has run the label shows the count
\* or an error, and when it shows the count the image shown is the
\* filter's output for the sliders' present values.  After an error the
\* image is the one shown before, if any.
C13_Debounce ==
    /\ runs <= 1
    /\ timer >= 0 =>
          /\ runs = 0
          /\ status_lbl.kind = "processing"
          /\ timer + quiet = DebounceMs
    /\ runs = 1 =>
          /\ timer = -1
          /\ fired_quiet >= DebounceMs
          /\ status_lbl.kind \in {"points", "error"}
          /\ status_lbl.kind = "points" =>
                /\ proc_img.shown
                /\ proc_img.aura = aura_slider
                /\ proc_img.thr = thr_slider
                /\ card_file.kind = "ok" =>
                      proc_img.out =
                          process_image_with_aura(card_file, aura_slider,
                                                  thr_slider, fdown, blurUlp).out

\* a burst of two changes, one of each slider, then the run: the image of
\* the two-pixel file is the one for aura 50 and threshold 100
C13_Witness ==
    /\ runs = 1
    /\ card_file = TwoTone
    /\ aura_slider = 50
    /\ thr_slider = 100
    /\ status_lbl = Label("points", 1, "none")
    /\ proc_img.aura = 50
    /\ proc_img.thr = 100
    /\ proc_img.out[<<2, 1>>] # <<0, 0, 0>>

(***************************************************************************)
(* VisualIdentityApp: add_files and _export                                *)
(***************************************************************************)
\* the files the user may select or drop
ExportFiles ==
    {[name |-> "a.png", stem |-> "a", suffix |-> ".png", source |-> TwoTone],
     [name |-> "b.PNG", stem |-> "b", suffix |-> ".PNG", source |-> CorruptSource],
     [name |-> "d.gif", stem |-> "d", suffix |-> ".gif", source |-> OnePixel(<<0, 0, 0>>)]}

\* the lists of paths one selection or drop may carry
PathLists == UNION {[1..n -> ExportFiles] : n \in 1..MaxPaths}

\* ImageCard(path, scale): the card of a file, its sliders at their start
NewCard(f) ==
    [name |-> f.name, stem |-> f.stem, source |-> f.source,
     aura |-> AuraStart, thr |-> ThrStart]

\* the window just opened: no card, the export button hidden
ExportInit ==
    /\ fdown \in SUBSET {<<255, 255, 255>>}
    /\ blurUlp \in {0, 1}
    /\ aura_size = 0
    /\ white_threshold = 0
    /\ src = CorruptSource
    /\ fseen = {}
    /\ result = NotRun
    /\ second = NotRun
    /\ pc = "window"
    /\ BatchIdle
    /\ GuiIdle

\* what add_files and _export never touch
exportFrame == <<src, aura_size, white_threshold, fdown, fseen, blurUlp, result,
                 second, caller, input_exists, output_state, entries, files,
                 printed, retval, raised, card_file, aura_slider, thr_slider,
                 timer, status_lbl, proc_img, quiet, runs, fired_quiet>>

\* add_files(file_paths): one card per path, appended in the order given
add_files ==
    /\ pc = "window"
    /\ \E paths \in PathLists :
          /\ Len(cards) + Len(paths) <= MaxCards
          /\ cards' = cards \o [i \in DOMAIN paths |-> NewCard(paths[i])]
    /\ UNCHANGED <<pc, idx, saved, dialog>>
    /\ UNCHANGED exportFrame

\* the user moves the aura slider of one card
MoveCardAura ==
    /\ pc = "window"
    /\ \E i \in DOMAIN cards :
       \E v \in AuraSliderValues \ {cards[i].aura} :
          cards' = [cards EXCEPT ![i].aura = v]
    /\ UNCHANGED <<pc, idx, saved, dialog>>
    /\ UNCHANGED exportFrame

\* a click on "Export All", visible once there is a card: _export enters
\* its loop
ExportStart ==
    /\ pc = "window"
    /\ cards # <<>>
    /\ pc' = "exporting"
    /\ idx' = 1
    /\ UNCHANGED <<cards, saved, dialog>>
    /\ UNCHANGED exportFrame

\* a loop whose body catches its own exceptions, as the batch loop does
AfterCardContinue(failed) == "exporting"

\* the try encloses the whole loop: an exception leaves it
AfterCard(failed) == IF failed THEN "export_failed" ELSE "exporting"

\* one iteration of the loop of _export, and the except clause if it raises
ExportStep(card, r, save_exc) ==
    IF ~Caught(r.exc) /\ ~Caught(save_exc)
      THEN /\ saved' = Append(saved, [path |-> OutputPath(card),
                                      from |-> card.name, image |-> r.out])
           /\ dialog' = dialog
           /\ pc' = AfterCard(FALSE)
      ELSE /\ saved' = saved
           /\ dialog' = "Error"
           /\ pc' = AfterCard(TRUE)

ExportOutcome(card, r) == \E save_exc \in SaveOutcomes(r) : ExportStep(card, r, save_exc)

\* the card at idx is processed with its sliders' values and saved
ExportCard ==
    /\ pc = "exporting"
    /\ idx <= Len(cards)
    /\ ExportOutcome(cards[idx],
                     process_image_with_aura(cards[idx].source, cards[idx].aura,
                                             cards[idx].thr, fdown, blurUlp))
    /\ idx' = idx + 1
    /\ UNCHANGED cards
    /\ UNCHANGED exportFrame

\* the loop ended without an exception: the "Exported N images" message
ExportFinish ==
    /\ pc = "exporting"
    /\ idx > Len(cards)
    /\ dialog' = "Done"
    /\ pc' = "export_done"
    /\ UNCHANGED <<cards, idx, saved>>
    /\ UNCHANGED exportFrame

ExportNext == add_files \/ MoveCardAura \/ ExportStart \/ ExportCard \/ ExportFinish

ExportSpec == ExportInit /\ [][ExportNext]_vars

\* the number of cards the loop of _export has saved: the failing
\* iteration, if any, is the last one entered
SavedCards == IF pc = "export_failed" THEN idx - 2 ELSE idx - 1

\* C15: _export takes the cards in the order they were added and stops at
\* the first card that fails: the cards before it are saved, each to
\* <stem>_processed.jpg with the image for its own sliders' values, the
\* failing card and the later ones are not saved, and the error dialog is
\* shown; the "Exported N images" message is shown only after all N cards
\* were saved.
C15_ExportStopsAtFirstFailure ==
    pc \in {"exporting", "export_failed", "export_done"} =>
        /\ Len(saved) = SavedCards
        /\ \A i \in DOMAIN saved :
              /\ saved[i].from = cards[i].name
              /\ saved[i].path = <<cards[i].stem, "_processed.jpg">>
              /\ saved[i].image =
                    process_image_with_aura(cards[i].source, cards[i].aura,
                                            cards[i].thr, fdown, blurUlp).out
        /\ pc = "export_failed" <=> dialog = "Error"
        /\ pc = "export_done" <=> dialog = "Done"
        /\ pc = "export_failed" => SavedCards < Len(cards)
        /\ pc = "export_done" => SavedCards = Len(cards)
        /\ \A i \in DOMAIN cards : i <= SavedCards => cards[i].source.kind = "ok"

\* three cards, the second of a file that cannot be read: the first is
\* saved, the third, which could be, is not, and the error dialog is up
C15_Witness ==
    /\ pc = "export_failed"
    /\ dialog = "Error"
    /\ Len(cards) = 3
    /\ idx = 3
    /\ cards[2].source = CorruptSource
    /\ cards[3].source.kind = "ok"
    /\ Len(saved) = 1
    /\ saved[1].from = cards[1].name

====
